---- MODULE Spec2Model ----
(***************************************************************************)
(* Model of the risk engine of portfolio_risk (src/risk_model/engine.py).  *)
(*                                                                         *)
(* Numbers.  Python floats are modelled by exact values, each a record     *)
(*   [k |-> "num",  n, d]   the rational n/d            (d > 0, reduced)   *)
(*   [k |-> "surd", n, d]   sgn(n) * sqrt(|n|/d)        (d > 0, reduced)   *)
(*   [k |-> "nan",  ...]    numpy's NaN                                    *)
(*   [k |-> "none", ...]    Python's None                                  *)
(* A surd is what statistics.stdev and DataFrame.corr return: the square   *)
(* root of a rational.  Money amounts (market cap, volume, TVL) are in     *)
(* millions of USD.  Optional lists are [k |-> "none"|"list", v |-> seq],  *)
(* so that None and the empty list [] stay different values.               *)
(***************************************************************************)
EXTENDS Integers, Sequences, FiniteSets, TLC

VARIABLES
  pc,            \* the entry point being run, and the position in it
  params,        \* its arguments
  ret,           \* its return value
  raised,        \* the exception that left it, or "none"
  cache,         \* the memoization dict of one run
  net,           \* what reached the network and the clock: requests and sleeps
  calls,         \* the calls of the fetch operations made so far, with their results
  df,            \* run_model, backtest_portfolio: the portfolio rows
  idx,           \* run_model, backtest_portfolio: the row the current loop is at
  markets,       \* run_model: the market snapshots
  series,        \* run_model: the price history of each identifier
  corr,          \* run_model: the correlation matrix
  vol_map,       \* run_model: the volatility of each identifier
  start_prices,  \* backtest_portfolio: start price of each token
  end_prices,    \* backtest_portfolio: end price of each token
  records        \* run_model, backtest_portfolio: the rows built

vars == <<pc, params, ret, raised, cache, net, calls, df, idx, markets, series, corr,
          vol_map, start_prices, end_prices, records>>

fetchVars == <<cache, net, calls>>

runVars == <<df, idx, markets, series, corr, vol_map, start_prices, end_prices, records>>

----------------------------------------------------------------------------
(* Values *)

Abs(x) == IF x < 0 THEN -x ELSE x

Min(a, b) == IF a < b THEN a ELSE b

Max(a, b) == IF a > b THEN a ELSE b

RECURSIVE Gcd(_, _)
Gcd(a, b) == IF b = 0 THEN a ELSE Gcd(b, a % b)

Num(n, d) ==
  LET s == IF d < 0 THEN -1 ELSE 1
      g == Gcd(Abs(n), Abs(d))
  IN  [k |-> "num", n |-> (s * n) \div g, d |-> (s * d) \div g]

Surd(n, d) ==
  LET g == Gcd(Abs(n), Abs(d))
  IN  [k |-> "surd", n |-> n \div g, d |-> d \div g]

Flt(n) == [k |-> "num", n |-> n, d |-> 1]

None == [k |-> "none", n |-> 0, d |-> 1]

NaN == [k |-> "nan", n |-> 0, d |-> 1]

NoneList == [k |-> "none", v |-> <<>>]

(* Python truthiness of a list or None *)
NonEmpty(s) == s.k = "list" /\ s.v # <<>>

List(s) == [k |-> "list", v |-> s]

IsNone(x) == x.k = "none"

IsNaN(x) == x.k = "nan"

IsNum(x) == x.k = "num"

(* float arithmetic: NaN in, NaN out.  Fractions are brought to the least *)
(* common denominator, and products are cancelled crosswise first.        *)
RAdd(a, b) ==
  IF IsNaN(a) \/ IsNaN(b) THEN NaN
  ELSE LET g == Gcd(a.d, b.d)
       IN  Num(a.n * (b.d \div g) + b.n * (a.d \div g), (a.d \div g) * b.d)

RNeg(a) == IF IsNaN(a) THEN NaN ELSE [k |-> "num", n |-> -a.n, d |-> a.d]

RSub(a, b) == RAdd(a, RNeg(b))

RMul(a, b) ==
  IF IsNaN(a) \/ IsNaN(b) THEN NaN
  ELSE LET g1 == Gcd(Abs(a.n), b.d)
           g2 == Gcd(Abs(b.n), a.d)
       IN  Num((a.n \div g1) * (b.n \div g2), (a.d \div g2) * (b.d \div g1))

(* a / b for b # 0 *)
RDiv(a, b) ==
  IF IsNaN(a) \/ IsNaN(b) THEN NaN
  ELSE RMul(a, IF b.n < 0 THEN [k |-> "num", n |-> -b.d, d |-> -b.n]
                          ELSE [k |-> "num", n |-> b.d, d |-> b.n])

RAbs(a) == IF IsNaN(a) THEN NaN ELSE [k |-> "num", n |-> Abs(a.n), d |-> a.d]

(* comparisons with NaN are False *)
RLt(a, b) ==
  /\ IsNum(a)
  /\ IsNum(b)
  /\ LET g == Gcd(a.d, b.d) IN a.n * (b.d \div g) < b.n * (a.d \div g)

RGt(a, b) == RLt(b, a)

(* x == x, the NaN test of the source *)
SelfEq(x) == ~IsNaN(x)

(* Python truthiness of a number or None: None and 0 are falsy, NaN is truthy *)
Truthy(x) == ~IsNone(x) /\ ~(x.k \in {"num", "surd"} /\ x.n = 0)

(* the square of |x| as a rational, for a num or a surd *)
Sq(x) == IF x.k = "surd" THEN Num(Abs(x.n), x.d) ELSE Num(x.n * x.n, x.d * x.d)

(* sqrt(q) < t for rationals q >= 0 and t > 0 *)
SurdLt(x, t) == IF x.k = "surd" THEN x.n < 0 \/ RLt(Sq(x), RMul(t, t)) ELSE RLt(x, t)

RECURSIVE RSum(_)
RSum(s) == IF s = <<>> THEN Flt(0) ELSE RAdd(Head(s), RSum(Tail(s)))

----------------------------------------------------------------------------
(* Statistics calculator *)

DaysPerYear == 365

(* Python's seq[start:] for any integer start *)
PySliceFrom(s, start) ==
  LET n == Len(s)
      b == IF start < 0 THEN Max(n + start, 0) ELSE Min(start, n)
  IN  SubSeq(s, b + 1, n)

(* [(prices[i]-prices[i-1])/prices[i-1] for i in range(1,len(prices))] *)
Returns(prices) ==
  [i \in 1..(Len(prices) - 1) |->
     RDiv(RSub(Flt(prices[i + 1]), Flt(prices[i])), Flt(prices[i]))]

(* statistics.variance: sum of squared deviations from the mean, over n-1 *)
Variance(xs) ==
  LET n    == Len(xs)
      mean == RDiv(RSum(xs), Flt(n))
      dev2 == [i \in 1..n |-> RMul(RSub(xs[i], mean), RSub(xs[i], mean))]
  IN  RDiv(RSum(dev2), Flt(n - 1))

(* statistics.stdev(xs) * math.sqrt(365), as the surd sqrt(365 * variance) *)
StdevAnnualized(xs) ==
  LET v == RMul(Flt(DaysPerYear), Variance(xs)) IN Surd(v.n, v.d)

(* calc_vol with the minimum number of returns off by one *)
calc_vol_min3(prices, window) ==
  IF prices.k = "none" \/ Len(prices.v) < 2 THEN None
  ELSE LET w    == Min(window, Len(prices.v) - 1)
           rets == Returns(prices.v)
           tail == PySliceFrom(rets, -w)
       IN  IF Len(tail) < 3 THEN None ELSE StdevAnnualized(tail)

calc_vol(prices, window) ==
  IF prices.k = "none" \/ Len(prices.v) < 2 THEN None
  ELSE LET w    == Min(window, Len(prices.v) - 1)
           rets == Returns(prices.v)
           tail == PySliceFrom(rets, -w)
       IN  IF Len(tail) < 2 THEN None ELSE StdevAnnualized(tail)

----------------------------------------------------------------------------
(* Correlation matrix *)

(* one entry of DataFrame.corr(): Pearson's r of two columns of returns,  *)
(* NaN when there are fewer than 2 rows or a column does not vary         *)
Pearson(xs, ys) ==
  LET n   == Len(xs)
      mx  == RDiv(RSum(xs), Flt(n))
      my  == RDiv(RSum(ys), Flt(n))
      sxx == RSum([i \in 1..n |-> RMul(RSub(xs[i], mx), RSub(xs[i], mx))])
      syy == RSum([i \in 1..n |-> RMul(RSub(ys[i], my), RSub(ys[i], my))])
      sxy == RSum([i \in 1..n |-> RMul(RSub(xs[i], mx), RSub(ys[i], my))])
      q   == RDiv(RMul(sxy, sxy), RMul(sxx, syy))
  IN  IF n < 2 \/ sxx.n = 0 \/ syy.n = 0 THEN NaN
      ELSE Surd((IF sxy.n < 0 THEN -1 ELSE 1) * q.n, q.d)

(* pd.DataFrame() *)
EmptyFrame == [index |-> {}, at |-> <<>>]

(* the frame, or the ValueError of pd.DataFrame(valid) for columns of      *)
(* different lengths                                                      *)
corr_matrix(series_dict) ==
  LET valid == {c \in DOMAIN series_dict :
                  series_dict[c].k = "list" /\ Len(series_dict[c].v) > 1}
  IN  IF DOMAIN series_dict = {} \/ valid = {}
      THEN [raised |-> "none", frame |-> EmptyFrame]
      ELSE IF \E a, b \in valid : Len(series_dict[a].v) # Len(series_dict[b].v)
      THEN [raised |-> "ValueError", frame |-> EmptyFrame]
      ELSE [raised |-> "none",
            frame  |-> [index |-> valid,
                        at    |-> [p \in valid \X valid |->
                                     Pearson(Returns(series_dict[p[1]].v),
                                             Returns(series_dict[p[2]].v))]]]

----------------------------------------------------------------------------
(* Risk scorer *)

(* x or 0 *)
OrZero(x) == IF Truthy(x) THEN x ELSE Flt(0)

(* np.mean([abs(a), abs(b)]) < t, for t > 0; False when the mean is NaN.   *)
(* Two rationals are added as they are.  With a surd, A = a^2, B = b^2:    *)
(* |a|+|b| < 2t  iff  s > 0 and 4AB < s^2, where s = 4t^2 - A - B.         *)
AbsMeanLt(a, b, t) ==
  /\ ~IsNaN(a)
  /\ ~IsNaN(b)
  /\ IF IsNum(a) /\ IsNum(b)
     THEN RLt(RAdd(RAbs(a), RAbs(b)), RMul(Flt(2), t))
     ELSE LET A == Sq(a)
              B == Sq(b)
              s == RSub(RSub(RMul(Flt(4), RMul(t, t)), A), B)
          IN  /\ RGt(s, Flt(0))
              /\ RLt(RMul(Flt(4), RMul(A, B)), RMul(s, s))

(* round(x, 2): nearest hundredth, ties to even *)
Round2(x) ==
  LET q  == (100 * x.n) \div x.d
      r2 == 2 * ((100 * x.n) % x.d)
      up == r2 > x.d \/ (r2 = x.d /\ q % 2 = 1)
  IN  Num(IF up THEN q + 1 ELSE q, 100)

(* score_market with the market-cap comparisons made non-strict *)
score_market_ge(mcap, vol, corr_btc, corr_eth, is_stable) ==
  IF is_stable THEN Num(3, 2)
  ELSE
    LET vol_s  == IF IsNone(vol) THEN 3
                  ELSE IF SurdLt(vol, Num(1, 2)) THEN 1
                  ELSE IF SurdLt(vol, Flt(1)) THEN 3
                  ELSE 5
        mcap_s == IF IsNone(mcap) THEN 3
                  ELSE IF ~RLt(mcap, Flt(10000)) THEN 1
                  ELSE IF ~RLt(mcap, Flt(1000)) THEN 3
                  ELSE 5
        a      == OrZero(corr_btc)
        b      == OrZero(corr_eth)
        corr_s == IF AbsMeanLt(a, b, Num(4, 10)) THEN 1
                  ELSE IF AbsMeanLt(a, b, Num(7, 10)) THEN 3
                  ELSE 5
    IN  Round2(RAdd(RAdd(RMul(Flt(vol_s), Num(5, 10)),
                         RMul(Flt(mcap_s), Num(3, 10))),
                    RMul(Flt(corr_s), Num(2, 10))))

score_market(mcap, vol, corr_btc, corr_eth, is_stable) ==
  IF is_stable THEN Num(3, 2)
  ELSE
    LET vol_s  == IF IsNone(vol) THEN 3
                  ELSE IF SurdLt(vol, Num(1, 2)) THEN 1
                  ELSE IF SurdLt(vol, Flt(1)) THEN 3
                  ELSE 5
        mcap_s == IF IsNone(mcap) THEN 3
                  ELSE IF RGt(mcap, Flt(10000)) THEN 1
                  ELSE IF RGt(mcap, Flt(1000)) THEN 3
                  ELSE 5
        a      == OrZero(corr_btc)
        b      == OrZero(corr_eth)
        corr_s == IF AbsMeanLt(a, b, Num(4, 10)) THEN 1
                  ELSE IF AbsMeanLt(a, b, Num(7, 10)) THEN 3
                  ELSE 5
    IN  Round2(RAdd(RAdd(RMul(Flt(vol_s), Num(5, 10)),
                         RMul(Flt(mcap_s), Num(3, 10))),
                    RMul(Flt(corr_s), Num(2, 10))))

(* score_other with an absent input scored as the worst bucket *)
score_other_worst(volume_24h, tvl, is_stable) ==
  [liq  |-> IF IsNone(volume_24h) THEN 5
            ELSE IF RGt(volume_24h, Flt(500)) THEN 1
            ELSE IF RGt(volume_24h, Flt(50)) THEN 3
            ELSE 5,
   prot |-> IF IsNone(tvl) THEN 5
            ELSE IF RGt(tvl, Flt(1000)) THEN 1
            ELSE IF RGt(tvl, Flt(100)) THEN 3
            ELSE 5,
   reg  |-> IF is_stable THEN 3
            ELSE IF RGt(OrZero(volume_24h), Flt(500)) THEN 2
            ELSE 4]

score_other(volume_24h, tvl, is_stable) ==
  [liq  |-> IF IsNone(volume_24h) THEN 3
            ELSE IF RGt(volume_24h, Flt(500)) THEN 1
            ELSE IF RGt(volume_24h, Flt(50)) THEN 3
            ELSE 5,
   prot |-> IF IsNone(tvl) THEN 3
            ELSE IF RGt(tvl, Flt(1000)) THEN 1
            ELSE IF RGt(tvl, Flt(100)) THEN 3
            ELSE 5,
   reg  |-> IF is_stable THEN 3
            ELSE IF RGt(OrZero(volume_24h), Flt(500)) THEN 2
            ELSE 4]

Dims == <<"Market", "Liquidity", "Protocol", "Regulatory">>

(* round(sum(risks[k]*w[k] for k in w), 2) *)
weighted(risks, w) ==
  Round2(RSum([i \in 1..Len(Dims) |-> RMul(risks[Dims[i]], w[Dims[i]])]))

WEIGHTS ==
  [ShortTerm  |-> [Market |-> Num(4, 10), Liquidity |-> Num(4, 10),
                   Protocol |-> Num(1, 10), Regulatory |-> Num(1, 10)],
   MediumTerm |-> [Market |-> Num(3, 10), Liquidity |-> Num(2, 10),
                   Protocol |-> Num(3, 10), Regulatory |-> Num(2, 10)],
   LongTerm   |-> [Market |-> Num(2, 10), Liquidity |-> Num(1, 10),
                   Protocol |-> Num(4, 10), Regulatory |-> Num(3, 10)]]

----------------------------------------------------------------------------
(* Market data fetcher.  Each operation takes the cache and the network   *)
(* log it starts from and the response the upstream gives to the request  *)
(* it may issue, and yields its return value, the exception that left it, *)
(* and the cache and the log it leaves behind.                            *)

(* Python's None where an identifier is expected *)
NoCid == "None"

(* d[key] = v *)
Put(d, key, v) == [x \in DOMAIN d \cup {key} |-> IF x = key THEN v ELSE d[x]]

Range(s) == {s[i] : i \in 1..Len(s)}

(* requests.get raising requests.exceptions.Timeout *)
Timeout == [kind |-> "timeout", status |-> 0, body |-> <<>>]

Http(status, body) == [kind |-> "http", status |-> status, body |-> body]

(* how a request ended: a timeout, a success status, or another status *)
Answer(resp) ==
  IF resp.kind = "timeout" THEN "timeout" ELSE IF resp.status = 200 THEN "ok" ELSE "status"

Get(ep, key, resp) == [ev |-> "get", ep |-> ep, key |-> key, ms |-> 0, answer |-> Answer(resp)]

Sleep(ms) == [ev |-> "sleep", ep |-> "sleep", key |-> <<>>, ms |-> ms, answer |-> "none"]

(* 0.25 if headers else 1.0, in milliseconds; headers is non-empty iff a key is set *)
Pause(has_key) == IF has_key THEN 250 ELSE 1000

Result(r, e, c, n) == [ret |-> r, raised |-> e, cache |-> c, net |-> n]

(* a price delivered as text that is no number *)
NotANumber == [k |-> "text", n |-> 0, d |-> 1]

(* float(price) succeeds: on a number, and on text that is a number ("str") *)
Floatable(x) == x.k \in {"num", "str"}

(* float(price) *)
Float(x) == IF x.k = "str" THEN [k |-> "num", n |-> x.n, d |-> x.d] ELSE x

fetch_simple_prices(ids, n, resp) ==
  LET n1 == Append(n, Get("simple/price", Range(ids) \ {NoCid}, resp))
  IN  IF ids = <<>> THEN Result(<<>>, "none", <<>>, n)
      ELSE IF resp.kind = "timeout" THEN Result(<<>>, "Timeout", <<>>, n1)
      ELSE IF resp.status # 200 THEN Result(<<>>, "none", <<>>, n1)
      ELSE LET data == resp.body
               got  == {cid \in DOMAIN data : ~IsNone(data[cid]) /\ Floatable(data[cid])}
           IN  Result([cid \in got |-> [price |-> Float(data[cid])]], "none", <<>>, n1)

SetToSeq(S) == CHOOSE q \in [1..Cardinality(S) -> S] : Range(q) = S

(* fetch_markets_batch with the price-only snapshot merged over the bulk one *)
fetch_markets_batch_overwrite(ids, n, resp, resp2) ==
  LET requested == Range(ids) \ {NoCid}
      n1        == Append(n, Get("coins/markets", requested, resp))
      body      == IF resp.status = 200 THEN resp.body ELSE <<>>
      out       == [cid \in DOMAIN body |->
                      [price        |-> body[cid].current_price,
                       market_cap   |-> body[cid].market_cap,
                       volume_24h   |-> body[cid].total_volume,
                       price_source |-> "markets"]]
      missing   == requested \ DOMAIN out
      simple    == fetch_simple_prices(SetToSeq(missing), n1, resp2)
      added     == {cid \in DOMAIN simple.ret : ~IsNone(simple.ret[cid].price)}
  IN  IF ids = <<>> THEN Result(<<>>, "none", <<>>, n)
      ELSE IF resp.kind = "timeout" THEN Result(<<>>, "Timeout", <<>>, n1)
      ELSE IF missing = {} THEN Result(out, "none", <<>>, n1)
      ELSE IF simple.raised # "none" THEN Result(<<>>, simple.raised, <<>>, simple.net)
      ELSE Result([cid \in DOMAIN out \cup added |->
                     IF cid \notin added THEN out[cid]
                     ELSE [price        |-> simple.ret[cid].price,
                           market_cap   |-> None,
                           volume_24h   |-> None,
                           price_source |-> "simple"]],
                  "none", <<>>, simple.net)

fetch_markets_batch(ids, n, resp, resp2) ==
  LET requested == Range(ids) \ {NoCid}
      n1        == Append(n, Get("coins/markets", requested, resp))
      body      == IF resp.status = 200 THEN resp.body ELSE <<>>
      out       == [cid \in DOMAIN body |->
                      [price        |-> body[cid].current_price,
                       market_cap   |-> body[cid].market_cap,
                       volume_24h   |-> body[cid].total_volume,
                       price_source |-> "markets"]]
      missing   == requested \ DOMAIN out
      simple    == fetch_simple_prices(SetToSeq(missing), n1, resp2)
      added     == {cid \in DOMAIN simple.ret :
                      cid \notin DOMAIN out /\ ~IsNone(simple.ret[cid].price)}
  IN  IF ids = <<>> THEN Result(<<>>, "none", <<>>, n)
      ELSE IF resp.kind = "timeout" THEN Result(<<>>, "Timeout", <<>>, n1)
      ELSE IF missing = {} THEN Result(out, "none", <<>>, n1)
      ELSE IF simple.raised # "none" THEN Result(<<>>, simple.raised, <<>>, simple.net)
      ELSE Result([cid \in DOMAIN out \cup added |->
                     IF cid \in DOMAIN out THEN out[cid]
                     ELSE [price        |-> simple.ret[cid].price,
                           market_cap   |-> None,
                           volume_24h   |-> None,
                           price_source |-> "simple"]],
                  "none", <<>>, simple.net)

fetch_history(cid, days, has_key, c, n, resp) ==
  LET key    == <<"hist", cid, days>>
      n1     == Append(n, Get("market_chart", <<cid, days>>, resp))
      prices == [i \in 1..Len(resp.body) |-> resp.body[i][2]]
  IN  IF cid = NoCid THEN Result(NoneList, "none", c, n)
      ELSE IF key \in DOMAIN c THEN Result(c[key], "none", c, n)
      ELSE IF resp.kind = "timeout" THEN Result(NoneList, "Timeout", c, n1)
      ELSE IF resp.status # 200 THEN Result(NoneList, "none", c, n1)
      ELSE Result(List(prices), "none", Put(c, key, List(prices)),
                  Append(n1, Sleep(Pause(has_key))))

fetch_history_range(cid, start_dt, end_dt, has_key, c, n, resp) ==
  LET key    == <<"range", cid, start_dt, end_dt>>
      n1     == Append(n, Get("market_chart/range", <<cid, start_dt, end_dt>>, resp))
      prices == resp.body
  IN  IF cid = NoCid \/ start_dt >= end_dt THEN Result(NoneList, "none", c, n)
      ELSE IF key \in DOMAIN c /\ c[key].k # "none" THEN Result(c[key], "none", c, n)
      ELSE IF resp.kind = "timeout" THEN Result(NoneList, "Timeout", c, n1)
      ELSE IF resp.status # 200 THEN Result(NoneList, "none", c, n1)
      ELSE Result(IF prices = <<>> THEN NoneList ELSE List(prices), "none",
                  Put(c, key, List(prices)), Append(n1, Sleep(Pause(has_key))))

_pick_price_from_series(s, pick) ==
  IF ~NonEmpty(s) THEN None
  ELSE IF pick = "first" THEN Flt(s.v[1][2])
  ELSE Flt(s.v[Len(s.v)][2])

----------------------------------------------------------------------------
(* Entry points called on their own: the statistics and the scorers *)

MaxLen == 4

MaxPrice == 3

MaxWindow == 4

PriceSeqs == UNION {[1..n -> 1..MaxPrice] : n \in 0..MaxLen}

(* the variables of a run that has not started *)
Fresh ==
  /\ idx = 1
  /\ cache = <<>>
  /\ net = <<>>
  /\ calls = <<>>
  /\ markets = <<>>
  /\ series = <<>>
  /\ corr = <<>>
  /\ vol_map = <<>>
  /\ start_prices = <<>>
  /\ end_prices = <<>>
  /\ records = <<>>
  /\ ret = None
  /\ raised = "none"

Idle == Fresh /\ df = <<>>

McapGrid == {None, Flt(0), Flt(1000), Flt(1001), Flt(10000), Flt(10001)}

VolGrid ==
  {None, Surd(0, 1), Surd(24, 100), Surd(1, 4), Surd(99, 100), Surd(1, 1), Surd(4, 1)}

CorrGrid ==
  {None, NaN, Surd(1, 1), Surd(-1, 4), Surd(-49, 100)}
    \cup {Num(n, 100) : n \in {-100, -70, -40, -39, 0, 39, 40, 41, 69, 70, 71, 100}}

MoneyGrid ==
  {None} \cup {Flt(n) : n \in {0, 50, 51, 100, 101, 500, 501, 1000, 1001}}

InitVol ==
  /\ pc = "calc_vol"
  /\ params \in {[fn |-> "calc_vol", prices |-> p, window |-> w] :
                   p \in {NoneList} \cup {List(q) : q \in PriceSeqs},
                   w \in 0..MaxWindow}
  /\ Idle

InitScoreMarket ==
  /\ pc = "score_market"
  /\ params \in {[fn |-> "score_market", mcap |-> m, vol |-> v, corr_btc |-> cb,
                  corr_eth |-> ce, is_stable |-> st] :
                   m \in McapGrid, v \in VolGrid, cb \in CorrGrid, ce \in CorrGrid,
                   st \in BOOLEAN}
  /\ Idle

InitScoreOther ==
  /\ pc = "score_other"
  /\ params \in {[fn |-> "score_other", volume_24h |-> v, tvl |-> t, is_stable |-> st] :
                   v \in MoneyGrid, t \in MoneyGrid, st \in BOOLEAN}
  /\ Idle

CalcVolCall ==
  /\ pc = "calc_vol"
  /\ ret' = calc_vol(params.prices, params.window)
  /\ pc' = "done"
  /\ UNCHANGED <<params, raised, fetchVars, runVars>>

ScoreMarketCall ==
  /\ pc = "score_market"
  /\ ret' = score_market(params.mcap, params.vol, params.corr_btc, params.corr_eth,
                         params.is_stable)
  /\ pc' = "done"
  /\ UNCHANGED <<params, raised, fetchVars, runVars>>

ScoreOtherCall ==
  /\ pc = "score_other"
  /\ ret' = score_other(params.volume_24h, params.tvl, params.is_stable)
  /\ pc' = "done"
  /\ UNCHANGED <<params, raised, fetchVars, runVars>>

SpecVol == InitVol /\ [][CalcVolCall]_vars

NextScore == ScoreMarketCall \/ ScoreOtherCall

SpecScore == (InitScoreMarket \/ InitScoreOther) /\ [][NextScore]_vars

----------------------------------------------------------------------------
(* The fetch operations called one after another on one shared cache *)

MaxCalls == 2

FetchCids == {"bitcoin", "ethereum"}

FetchDays == {30, 90}

FetchInstants == {1, 2}

(* [[ts, price], ...] for a list of prices *)
Stamp(q) == [i \in 1..Len(q) |-> <<i, q[i]>>]

ChartResponses ==
  {Timeout, Http(429, <<>>)} \cup {Http(200, Stamp(q)) : q \in {<<>>, <<1>>, <<1, 2>>}}

(* the items of /coins/markets: current_price, market_cap, total_volume *)
Item(p, m, v) == [current_price |-> p, market_cap |-> m, total_volume |-> v]

FetchItems == {Item(Flt(2), Flt(20000), Flt(600)), Item(None, None, None)}

(* every mapping from a subset of S to V *)
PartialMaps(S, V) == UNION {[T -> V] : T \in SUBSET S}

MarketsResponses(ids, items) ==
  {Timeout, Http(429, <<>>)}
    \cup {Http(200, b) : b \in PartialMaps(Range(ids) \ {NoCid}, items)}

SimpleResponses(ids) ==
  {Timeout, Http(429, <<>>)}
    \cup {Http(200, b) : b \in PartialMaps(Range(ids) \ {NoCid}, {None, Flt(1)})}

(* the identifiers a bulk response leaves unresolved *)
MissingFrom(ids, resp) ==
  SetToSeq((Range(ids) \ {NoCid}) \ (IF resp.status = 200 THEN DOMAIN resp.body ELSE {}))

FetchIdLists == {<<>>, <<"bitcoin">>, <<"bitcoin", "ethereum">>}

(* the record of one call: what it returned or raised, and its part of the log *)
Call(fn, key, r, n) ==
  [fn |-> fn, key |-> key, ret |-> r.ret, raised |-> r.raised,
   first |-> Len(n) + 1, last |-> Len(r.net)]

InitFetch ==
  /\ pc = "fetch"
  /\ params \in {[fn |-> "fetch", has_key |-> h] : h \in BOOLEAN}
  /\ Idle

CanCall == pc = "fetch" /\ Len(calls) < MaxCalls /\ raised = "none"

FetchHistoryCall ==
  /\ CanCall
  /\ \E cid \in FetchCids \cup {NoCid}, days \in FetchDays, resp \in ChartResponses :
       LET r == fetch_history(cid, days, params.has_key, cache, net, resp)
       IN  /\ ret' = r.ret
           /\ raised' = r.raised
           /\ cache' = r.cache
           /\ net' = r.net
           /\ calls' = Append(calls, Call("fetch_history", <<cid, days>>, r, net))
  /\ UNCHANGED <<pc, params, runVars>>

FetchHistoryRangeCall ==
  /\ CanCall
  /\ \E cid \in FetchCids \cup {NoCid}, start_dt \in FetchInstants,
        end_dt \in FetchInstants, resp \in ChartResponses :
       LET r == fetch_history_range(cid, start_dt, end_dt, params.has_key, cache, net, resp)
       IN  /\ ret' = r.ret
           /\ raised' = r.raised
           /\ cache' = r.cache
           /\ net' = r.net
           /\ calls' = Append(calls, Call("fetch_history_range",
                                          <<cid, start_dt, end_dt>>, r, net))
  /\ UNCHANGED <<pc, params, runVars>>

FetchSimplePricesCall ==
  /\ CanCall
  /\ \E ids \in FetchIdLists :
       \E resp \in SimpleResponses(ids) :
         LET r == fetch_simple_prices(ids, net, resp)
         IN  /\ ret' = r.ret
             /\ raised' = r.raised
             /\ net' = r.net
             /\ calls' = Append(calls, Call("fetch_simple_prices", ids, r, net))
  /\ UNCHANGED <<pc, params, cache, runVars>>

FetchMarketsBatchCall ==
  /\ CanCall
  /\ \E ids \in FetchIdLists :
       \E resp \in MarketsResponses(ids, FetchItems) :
        \E resp2 \in SimpleResponses(MissingFrom(ids, resp)) :
         LET r == fetch_markets_batch(ids, net, resp, resp2)
         IN  /\ ret' = r.ret
             /\ raised' = r.raised
             /\ net' = r.net
             /\ calls' = Append(calls, Call("fetch_markets_batch", ids, r, net))
  /\ UNCHANGED <<pc, params, cache, runVars>>

NextFetch ==
  \/ FetchHistoryCall
  \/ FetchHistoryRangeCall
  \/ FetchSimplePricesCall
  \/ FetchMarketsBatchCall

SpecFetch == InitFetch /\ [][NextFetch]_vars

----------------------------------------------------------------------------
(* run_model *)

HISTORY_DAYS == 90

VOL_WINDOW == 30

Asset(token, cid, alloc_pct, stable) ==
  [token |-> token, coingecko |-> cid, alloc_pct |-> alloc_pct, stable |-> stable]

(* portfolios after config.MODEL_PORTFOLIO: stable and volatile sleeves,   *)
(* with and without a price-feed identifier, two sleeves on one identifier *)
Portfolios ==
  {<<Asset("BTC", "bitcoin", 50, FALSE), Asset("ETH", "ethereum", 30, FALSE),
     Asset("SOL", "solana", 20, FALSE)>>,
   <<Asset("USDC", "usd-coin", 50, TRUE), Asset("BTC", "bitcoin", 30, FALSE),
     Asset("SOL", "solana", 20, FALSE)>>,
   <<Asset("CASH", NoCid, 40, TRUE), Asset("XYZ", NoCid, 10, FALSE),
     Asset("ETH", "ethereum", 50, FALSE)>>,
   <<Asset("SOL", "solana", 60, FALSE), Asset("mSOL", "solana", 40, FALSE)>>}

(* a price delivered as text that float() parses *)
Str(n) == [k |-> "str", n |-> n, d |-> 1]

RunItems == {Item(Flt(2), Flt(20000), Flt(600)), Item(Str(3), None, None)}

RunCharts ==
  {Timeout, Http(429, <<>>)}
    \cup {Http(200, Stamp(q)) :
            q \in {<<>>, <<2>>, <<1, 2>>, <<1, 2, 2, 1>>, <<3, 1, 2, 2>>}}

(* [cid for cid in df["coingecko"] if cid] *)
Cids(rows) == SelectSeq([i \in 1..Len(rows) |-> rows[i].coingecko], LAMBDA c : c # NoCid)

(* the guard of run_model on a price that is a string *)
CoercePrice(mkt) ==
  IF mkt.price.k = "str" THEN [mkt EXCEPT !.price = Flt(mkt.price.n)] ELSE mkt

(* mkt.get(field) for mkt = markets.get(cid, {}) if cid else {} *)
MktGet(m, cid, field, default) ==
  IF cid # NoCid /\ cid \in DOMAIN m THEN m[cid][field] ELSE default

NoSource == "None"

(* corr.loc[cid, other] if (cid in corr.index and other in corr.columns) else 0 *)
CorrTo(frame, cid, other) ==
  IF cid \in frame.index /\ other \in frame.index THEN frame.at[<<cid, other>>] ELSE Flt(0)

Fetched(row, exclude) == row.coingecko # NoCid /\ (~row.stable \/ ~exclude)

RiskRow(row, m, frame, vmap, exclude) ==
  LET cid       == row.coingecko
      vol       == IF Fetched(row, exclude)
                   THEN (IF cid \in DOMAIN vmap THEN vmap[cid] ELSE None)
                   ELSE None
      c_btc     == CorrTo(frame, cid, "bitcoin")
      c_eth     == CorrTo(frame, cid, "ethereum")
      mkt_score == score_market(MktGet(m, cid, "market_cap", None), vol, c_btc, c_eth,
                                row.stable)
      other     == score_other(MktGet(m, cid, "volume_24h", None), None, row.stable)
      risks     == [Market |-> mkt_score, Liquidity |-> Flt(other.liq),
                    Protocol |-> Flt(other.prot), Regulatory |-> Flt(other.reg)]
  IN  [Token           |-> row.token,
       CoingeckoID     |-> cid,
       Price           |-> MktGet(m, cid, "price", None),
       Price_Source    |-> MktGet(m, cid, "price_source", NoSource),
       MktCap          |-> MktGet(m, cid, "market_cap", None),
       Vol24h          |-> MktGet(m, cid, "volume_24h", None),
       Volatility_30d  |-> vol,
       Corr_BTC        |-> c_btc,
       Corr_ETH        |-> c_eth,
       Market_Risk     |-> mkt_score,
       Liquidity_Risk  |-> other.liq,
       Protocol_Risk   |-> other.prot,
       Regulatory_Risk |-> other.reg,
       ShortTerm_Risk  |-> weighted(risks, WEIGHTS.ShortTerm),
       MediumTerm_Risk |-> weighted(risks, WEIGHTS.MediumTerm),
       LongTerm_Risk   |-> weighted(risks, WEIGHTS.LongTerm)]

InitRunModel ==
  /\ pc = "run_model"
  /\ df \in Portfolios
  /\ params \in {[fn |-> "run_model", history_days |-> HISTORY_DAYS,
                  vol_window |-> VOL_WINDOW, exclude_stables_for_vol |-> e,
                  has_key |-> FALSE] : e \in BOOLEAN}
  /\ Fresh

(* markets = fetch_markets_batch(cids, secrets) *)
RunModelMarkets ==
  /\ pc = "run_model"
  /\ \E resp \in MarketsResponses(Cids(df), RunItems) :
       \E resp2 \in SimpleResponses(MissingFrom(Cids(df), resp)) :
         LET r == fetch_markets_batch(Cids(df), net, resp, resp2)
         IN  /\ net' = r.net
             /\ calls' = Append(calls, Call("fetch_markets_batch", Cids(df), r, net))
             /\ raised' = r.raised
             /\ markets' = r.ret
             /\ pc' = IF r.raised = "none" THEN "history" ELSE "raised"
  /\ UNCHANGED <<params, ret, cache, df, idx, series, corr, vol_map,
                 start_prices, end_prices, records>>

(* one turn of the loop over the rows that fills series *)
RunModelHistory ==
  /\ pc = "history"
  /\ idx <= Len(df)
  /\ LET row == df[idx]
     IN  IF Fetched(row, params.exclude_stables_for_vol)
         THEN \E resp \in RunCharts :
                LET r == fetch_history(row.coingecko, params.history_days,
                                       params.has_key, cache, net, resp)
                IN  /\ cache' = r.cache
                    /\ net' = r.net
                    /\ calls' = Append(calls, Call("fetch_history",
                                         <<row.coingecko, params.history_days>>, r, net))
                    /\ raised' = r.raised
                    /\ IF r.raised = "none"
                       THEN /\ series' = Put(series, row.coingecko, r.ret)
                            /\ idx' = idx + 1
                            /\ pc' = pc
                       ELSE /\ pc' = "raised"
                            /\ UNCHANGED <<series, idx>>
         ELSE /\ idx' = idx + 1
              /\ UNCHANGED <<pc, raised, cache, net, calls, series>>
  /\ UNCHANGED <<params, ret, df, markets, corr, vol_map, start_prices, end_prices,
                 records>>

(* corr = corr_matrix(series); vol_map = {cid: calc_vol(...)} *)
RunModelStats ==
  /\ pc = "history"
  /\ idx > Len(df)
  /\ LET r == corr_matrix(series)
     IN  IF r.raised = "none"
         THEN /\ corr' = r.frame
              /\ vol_map' = [cid \in DOMAIN series |->
                               calc_vol(series[cid], params.vol_window)]
              /\ pc' = "records"
              /\ UNCHANGED raised
         ELSE /\ raised' = r.raised
              /\ pc' = "raised"
              /\ UNCHANGED <<corr, vol_map>>
  /\ UNCHANGED <<params, ret, fetchVars, df, idx, markets, series, start_prices,
                 end_prices, records>>

(* the loop that builds one record per row, and the return *)
RunModelRecords ==
  /\ pc = "records"
  /\ markets' = [cid \in DOMAIN markets |-> CoercePrice(markets[cid])]
  /\ records' = [i \in 1..Len(df) |->
                   RiskRow(df[i], markets', corr, vol_map, params.exclude_stables_for_vol)]
  /\ ret' = <<records', markets', corr>>
  /\ pc' = "done"
  /\ UNCHANGED <<params, raised, fetchVars, df, idx, series, corr, vol_map,
                 start_prices, end_prices>>

NextRunModel == RunModelMarkets \/ RunModelHistory \/ RunModelStats \/ RunModelRecords

SpecRunModel == InitRunModel /\ [][NextRunModel]_vars

(* score_other, called on its own and called by run_model *)
SpecScoreOther ==
  (InitScoreOther \/ InitRunModel) /\ [][ScoreOtherCall \/ NextRunModel]_vars

----------------------------------------------------------------------------
(* backtest_portfolio *)

STARTING_NAV == 100000

(* the epsilon of the TOTAL row, 1e-9 *)
Eps == [k |-> "num", n |-> 1, d |-> 1000000000]

(* max(x, 1e-9) *)
MaxEps(x) ==
  IF x.n >= x.d THEN x
  ELSE IF x.n <= 0 THEN Eps
  ELSE IF RLt(Eps, x) THEN x ELSE Eps

RangeCharts ==
  {Timeout, Http(429, <<>>)}
    \cup {Http(200, Stamp(q)) :
            q \in {<<>>, <<2>>, <<1, 2>>, <<2, 1>>, <<0, 1>>, <<-1, 1>>}}

(* (end / floor - 1.0) * 100.0.  Over the epsilon the quotient of a       *)
(* non-zero end is end * 10^9, beyond the integers of the checker: it is  *)
(* kept as the value [k |-> "e9", n, d], which stands for                 *)
(* (n/d * 10^9 - 1) * 100.                                                *)
PctOver(end, floor) ==
  IF floor = Eps /\ end.n # 0 THEN [k |-> "e9", n |-> end.n, d |-> end.d]
  ELSE RMul(RSub(RDiv(end, floor), Flt(1)), Flt(100))

(* the sum of a column, NaN skipped *)
RECURSIVE SumSkipNa(_)
SumSkipNa(col) ==
  IF col = <<>> THEN Flt(0)
  ELSE IF IsNaN(Head(col)) THEN SumSkipNa(Tail(col))
  ELSE RAdd(Head(col), SumSkipNa(Tail(col)))

Column(rows, name) == [i \in 1..Len(rows) |-> rows[i][name]]

(* PnlRow with the fallback price given to every sleeve without a price *)
PnlRow_fallback_all(row, sps, eps, starting_nav, stable_price_fallback) ==
  LET alloc_pct  == Flt(row.alloc_pct)
      sp0        == sps[row.token]
      ep0        == eps[row.token]
      sp         == IF IsNone(sp0) THEN stable_price_fallback ELSE sp0
      ep         == IF IsNone(ep0) THEN stable_price_fallback ELSE ep0
      target_usd == RMul(starting_nav, RDiv(alloc_pct, Flt(100)))
      units      == IF Truthy(sp) /\ RGt(sp, Flt(0)) THEN RDiv(target_usd, sp) ELSE NaN
      start_val  == IF SelfEq(units) THEN RMul(units, sp) ELSE NaN
      end_val    == IF SelfEq(units) /\ ~IsNone(ep) THEN RMul(units, ep) ELSE NaN
      pnl_usd    == IF SelfEq(end_val) /\ SelfEq(start_val)
                    THEN RSub(end_val, start_val) ELSE NaN
      pnl_pct    == IF SelfEq(pnl_usd) /\ Truthy(start_val) /\ RGt(start_val, Flt(0))
                    THEN RMul(RDiv(pnl_usd, start_val), Flt(100)) ELSE NaN
  IN  ("Token" :> row.token) @@ ("Alloc_%" :> alloc_pct) @@ ("Start_Price" :> sp)
        @@ ("End_Price" :> ep) @@ ("Units" :> units) @@ ("Start_Value_$" :> start_val)
        @@ ("End_Value_$" :> end_val) @@ ("PnL_$" :> pnl_usd) @@ ("PnL_%" :> pnl_pct)

(* PnlRow with a percentage for every non-zero start value, negative or not *)
PnlRow_pct_unsigned(row, sps, eps, starting_nav, stable_price_fallback) ==
  LET alloc_pct  == Flt(row.alloc_pct)
      sp0        == sps[row.token]
      ep0        == eps[row.token]
      sp         == IF IsNone(sp0) /\ row.stable THEN stable_price_fallback ELSE sp0
      ep         == IF IsNone(ep0) /\ row.stable THEN stable_price_fallback ELSE ep0
      target_usd == RMul(starting_nav, RDiv(alloc_pct, Flt(100)))
      units      == IF Truthy(sp) /\ RGt(sp, Flt(0)) THEN RDiv(target_usd, sp) ELSE NaN
      start_val  == IF SelfEq(units) THEN RMul(units, sp) ELSE NaN
      end_val    == IF SelfEq(units) /\ ~IsNone(ep) THEN RMul(units, ep) ELSE NaN
      pnl_usd    == IF SelfEq(end_val) /\ SelfEq(start_val)
                    THEN RSub(end_val, start_val) ELSE NaN
      pnl_pct    == IF SelfEq(pnl_usd) /\ Truthy(start_val)
                    THEN RMul(RDiv(pnl_usd, start_val), Flt(100)) ELSE NaN
  IN  ("Token" :> row.token) @@ ("Alloc_%" :> alloc_pct) @@ ("Start_Price" :> sp)
        @@ ("End_Price" :> ep) @@ ("Units" :> units) @@ ("Start_Value_$" :> start_val)
        @@ ("End_Value_$" :> end_val) @@ ("PnL_$" :> pnl_usd) @@ ("PnL_%" :> pnl_pct)

PnlRow(row, sps, eps, starting_nav, stable_price_fallback) ==
  LET alloc_pct  == Flt(row.alloc_pct)
      sp0        == sps[row.token]
      ep0        == eps[row.token]
      sp         == IF IsNone(sp0) /\ row.stable THEN stable_price_fallback ELSE sp0
      ep         == IF IsNone(ep0) /\ row.stable THEN stable_price_fallback ELSE ep0
      target_usd == RMul(starting_nav, RDiv(alloc_pct, Flt(100)))
      units      == IF Truthy(sp) /\ RGt(sp, Flt(0)) THEN RDiv(target_usd, sp) ELSE NaN
      start_val  == IF SelfEq(units) THEN RMul(units, sp) ELSE NaN
      end_val    == IF SelfEq(units) /\ ~IsNone(ep) THEN RMul(units, ep) ELSE NaN
      pnl_usd    == IF SelfEq(end_val) /\ SelfEq(start_val)
                    THEN RSub(end_val, start_val) ELSE NaN
      pnl_pct    == IF SelfEq(pnl_usd) /\ Truthy(start_val) /\ RGt(start_val, Flt(0))
                    THEN RMul(RDiv(pnl_usd, start_val), Flt(100)) ELSE NaN
  IN  ("Token" :> row.token) @@ ("Alloc_%" :> alloc_pct) @@ ("Start_Price" :> sp)
        @@ ("End_Price" :> ep) @@ ("Units" :> units) @@ ("Start_Value_$" :> start_val)
        @@ ("End_Value_$" :> end_val) @@ ("PnL_$" :> pnl_usd) @@ ("PnL_%" :> pnl_pct)

(* TotalsRow with sums that do not skip NaN *)
TotalsRow_keepna(out) ==
  LET start == RSum(Column(out, "Start_Value_$"))
      end   == RSum(Column(out, "End_Value_$"))
  IN  ("Token" :> "TOTAL") @@ ("Alloc_%" :> RSum(Column(out, "Alloc_%")))
        @@ ("Start_Price" :> NaN) @@ ("End_Price" :> NaN) @@ ("Units" :> NaN)
        @@ ("Start_Value_$" :> start) @@ ("End_Value_$" :> end)
        @@ ("PnL_$" :> RSum(Column(out, "PnL_$")))
        @@ ("PnL_%" :> PctOver(end, MaxEps(start)))

TotalsRow(out) ==
  LET start == SumSkipNa(Column(out, "Start_Value_$"))
      end   == SumSkipNa(Column(out, "End_Value_$"))
  IN  ("Token" :> "TOTAL") @@ ("Alloc_%" :> SumSkipNa(Column(out, "Alloc_%")))
        @@ ("Start_Price" :> NaN) @@ ("End_Price" :> NaN) @@ ("Units" :> NaN)
        @@ ("Start_Value_$" :> start) @@ ("End_Value_$" :> end)
        @@ ("PnL_$" :> SumSkipNa(Column(out, "PnL_$")))
        @@ ("PnL_%" :> PctOver(end, MaxEps(start)))

(* the portfolios backtested: those of run_model, and one with an empty  *)
(* sleeve and a short sleeve                                             *)
BacktestPortfolios ==
  Portfolios
    \cup {<<Asset("BTC", "bitcoin", 0, FALSE), Asset("ETH", "ethereum", -10, FALSE),
             Asset("USDC", "usd-coin", 110, TRUE)>>}

InitBacktest ==
  /\ pc = "backtest_portfolio"
  /\ df \in BacktestPortfolios
  /\ params \in {[fn |-> "backtest_portfolio", start_dt |-> s, end_dt |-> e,
                  starting_nav |-> Flt(STARTING_NAV), stable_price_fallback |-> f,
                  has_key |-> h] :
                   s \in FetchInstants, e \in FetchInstants, f \in {Flt(1), Flt(0)},
                   h \in BOOLEAN}
  /\ Fresh

(* one turn of the loop over cids that fills start_prices and end_prices *)
BacktestFetch ==
  /\ pc = "backtest_portfolio"
  /\ idx <= Len(df)
  /\ LET row == df[idx]
     IN  IF row.coingecko # NoCid
         THEN \E resp \in RangeCharts :
                LET r == fetch_history_range(row.coingecko, params.start_dt,
                                             params.end_dt, params.has_key,
                                             cache, net, resp)
                IN  /\ cache' = r.cache
                    /\ net' = r.net
                    /\ calls' = Append(calls, Call("fetch_history_range",
                                         <<row.coingecko, params.start_dt, params.end_dt>>,
                                         r, net))
                    /\ raised' = r.raised
                    /\ IF r.raised = "none"
                       THEN /\ start_prices' =
                                 Put(start_prices, row.token,
                                     IF NonEmpty(r.ret)
                                     THEN _pick_price_from_series(r.ret, "first")
                                     ELSE None)
                            /\ end_prices' =
                                 Put(end_prices, row.token,
                                     IF NonEmpty(r.ret)
                                     THEN _pick_price_from_series(r.ret, "last")
                                     ELSE None)
                            /\ idx' = idx + 1
                            /\ pc' = pc
                       ELSE /\ pc' = "raised"
                            /\ UNCHANGED <<start_prices, end_prices, idx>>
         ELSE LET p == IF row.stable THEN params.stable_price_fallback ELSE None
              IN  /\ start_prices' = Put(start_prices, row.token, p)
                  /\ end_prices' = Put(end_prices, row.token, p)
                  /\ idx' = idx + 1
                  /\ UNCHANGED <<pc, raised, cache, net, calls>>
  /\ UNCHANGED <<params, ret, df, markets, series, corr, vol_map, records>>

(* the P&L table, its totals row, and the return *)
BacktestRecords ==
  /\ pc = "backtest_portfolio"
  /\ idx > Len(df)
  /\ LET out == [i \in 1..Len(df) |->
                   PnlRow(df[i], start_prices, end_prices, params.starting_nav,
                          params.stable_price_fallback)]
     IN  records' = Append(out, TotalsRow(out))
  /\ ret' = records'
  /\ pc' = "done"
  /\ UNCHANGED <<params, raised, fetchVars, df, idx, markets, series, corr, vol_map,
                 start_prices, end_prices>>

NextBacktest == BacktestFetch \/ BacktestRecords

SpecBacktest == InitBacktest /\ [][NextBacktest]_vars

----------------------------------------------------------------------------
(* fetch_markets_batch called on its own, with the answers the upstream    *)
(* gives to the bulk request and to the price-only request held in params  *)

SnapshotIdLists ==
  {<<>>, <<NoCid>>, <<"bitcoin">>, <<"bitcoin", "bitcoin">>,
   <<"bitcoin", NoCid, "ethereum", "solana">>}

(* the "usd" field of /simple/price: null, a number, a number as text,     *)
(* text that is no number                                                 *)
SimplePrices == {None, Flt(1), Str(3), NotANumber}

(* the price-only answers; they may name any identifier of the call, also  *)
(* one the bulk answer resolved                                           *)
SnapshotSimpleResponses(ids) ==
  {Timeout, Http(429, <<>>)}
    \cup {Http(200, b) : b \in PartialMaps(Range(ids) \ {NoCid}, SimplePrices)}

InitSnapshot ==
  /\ pc = "fetch_markets_batch"
  /\ \E ids \in SnapshotIdLists :
       params \in {[fn |-> "fetch_markets_batch", ids |-> ids, resp |-> r1, resp2 |-> r2] :
                     r1 \in MarketsResponses(ids, FetchItems),
                     r2 \in SnapshotSimpleResponses(ids)}
  /\ Idle

FetchSnapshotCall ==
  /\ pc = "fetch_markets_batch"
  /\ LET r == fetch_markets_batch(params.ids, net, params.resp, params.resp2)
     IN  /\ ret' = r.ret
         /\ raised' = r.raised
         /\ net' = r.net
         /\ calls' = Append(calls, Call("fetch_markets_batch", params.ids, r, net))
         /\ pc' = IF r.raised = "none" THEN "done" ELSE "raised"
  /\ UNCHANGED <<params, cache, runVars>>

SpecSnapshot == InitSnapshot /\ [][FetchSnapshotCall]_vars

----------------------------------------------------------------------------
(* The engine as a whole: one of its entry points is called *)

Init ==
  \/ InitVol
  \/ InitScoreMarket
  \/ InitScoreOther
  \/ InitFetch
  \/ InitRunModel
  \/ InitBacktest
  \/ InitSnapshot

Next ==
  \/ CalcVolCall
  \/ ScoreMarketCall
  \/ ScoreOtherCall
  \/ FetchHistoryCall
  \/ FetchHistoryRangeCall
  \/ FetchSimplePricesCall
  \/ FetchMarketsBatchCall
  \/ RunModelMarkets
  \/ RunModelHistory
  \/ RunModelStats
  \/ RunModelRecords
  \/ BacktestFetch
  \/ BacktestRecords
  \/ FetchSnapshotCall

Spec == Init /\ [][Next]_vars

----------------------------------------------------------------------------
(* Properties *)

IsConstant(s) == \A i \in 1..Len(s) : s[i] = s[1]

VolDone == pc = "done" /\ params.fn = "calc_vol"

(* C6, as the specification states it: for every constant price series    *)
(* with at least 2 samples and every window >= 1, calc_vol returns 0.0.   *)
C6_ConstantSeriesAnyLength ==
  (/\ VolDone
   /\ params.prices.k = "list"
   /\ Len(params.prices.v) >= 2
   /\ IsConstant(params.prices.v)
   /\ params.window >= 1) => ret = Surd(0, 1)

(* C6, amended: for every constant price series with at least 3 samples   *)
(* and every window >= 2, calc_vol returns 0.0, not absent.               *)
C6_ConstantSeriesZeroVol ==
  (/\ VolDone
   /\ params.prices.k = "list"
   /\ Len(params.prices.v) >= 3
   /\ IsConstant(params.prices.v)
   /\ params.window >= 2) => ret = Surd(0, 1)

C6_Witness ==
  /\ VolDone
  /\ params.prices = List(<<2, 2, 2>>)
  /\ params.window = 2
  /\ ret = Surd(0, 1)

(* C7: calc_vol returns absent for fewer than 2 prices; otherwise it uses *)
(* exactly the last k = min(window, len(prices)-1) returns, is absent     *)
(* when k < 2, and is otherwise the sample standard deviation of those k  *)
(* returns times sqrt(365), for every window >= 0.                        *)
C7_LastKReturns ==
  VolDone =>
    LET n    == IF params.prices.k = "none" THEN 0 ELSE Len(params.prices.v)
        k    == Min(params.window, n - 1)
        rets == Returns(params.prices.v)
    IN  IF n < 2 \/ k < 2 THEN ret = None
        ELSE ret = StdevAnnualized(SubSeq(rets, Len(rets) - k + 1, Len(rets)))

(* the buckets of C9, written on the numerator and denominator of the     *)
(* inputs: vol is the surd sqrt(n/d), mcap is in millions                 *)
C9_V(vol) ==
  IF IsNone(vol) THEN 3
  ELSE IF 4 * vol.n < vol.d THEN 1
  ELSE IF vol.n < vol.d THEN 3
  ELSE 5

C9_M(mcap) ==
  IF IsNone(mcap) THEN 3
  ELSE IF mcap.n > 10000 * mcap.d THEN 1
  ELSE IF mcap.n > 1000 * mcap.d THEN 3
  ELSE 5

C9_C(cb, ce) ==
  IF AbsMeanLt(cb, ce, Num(4, 10)) THEN {1}
  ELSE IF AbsMeanLt(cb, ce, Num(7, 10)) THEN {3}
  ELSE {5}

(* C9: score_market is 1.5 whenever is_stable; otherwise it is            *)
(* 0.5*V + 0.3*M + 0.2*C to 2 decimals with the buckets V, M, C of the    *)
(* thresholds, and lies in [1, 5].  Where a correlation is absent the     *)
(* claim names no bucket, and any of 1, 3, 5 is accepted.                 *)
C9_ScoreMarket ==
  (pc = "done" /\ params.fn = "score_market") =>
    IF params.is_stable THEN ret = Num(15, 10)
    ELSE LET Cs == IF IsNone(params.corr_btc) \/ IsNone(params.corr_eth)
                   THEN {1, 3, 5}
                   ELSE C9_C(params.corr_btc, params.corr_eth)
         IN  /\ \E c \in Cs :
                  ret = Num(50 * C9_V(params.vol) + 30 * C9_M(params.mcap) + 20 * c, 100)
             /\ ~RLt(ret, Flt(1))
             /\ ~RGt(ret, Flt(5))

C9_Witness ==
  /\ pc = "done"
  /\ params.fn = "score_market"
  /\ ~params.is_stable
  /\ IsNone(params.vol)
  /\ params.mcap = Flt(1000)
  /\ params.corr_btc = Num(70, 100)
  /\ params.corr_eth = Surd(-49, 100)
  /\ ret = Num(40, 10)

(* the requests a call issued *)
GetsOf(c) == {i \in c.first..c.last : net[i].ev = "get"}

Memoized == {"fetch_history", "fetch_history_range"}

(* C1: within one run (one shared cache), after a first request for a key *)
(* of fetch_history or fetch_history_range, every later request for that  *)
(* key returns what the first returned and issues no network call,        *)
(* whatever the outcome of the first request was.  Stated for the calls   *)
(* that return.                                                           *)
C1_MemoizedWhateverOutcome ==
  \A i, j \in 1..Len(calls) :
    (/\ i < j
     /\ calls[i].fn \in Memoized
     /\ calls[j].fn = calls[i].fn
     /\ calls[j].key = calls[i].key
     /\ calls[i].raised = "none"
     /\ calls[j].raised = "none")
      => /\ calls[j].ret = calls[i].ret
         /\ GetsOf(calls[j]) = {}

(* C2: a fetch operation whose HTTP calls time out or return a            *)
(* non-success status returns absent (None, or the empty mapping) and no  *)
(* error propagates out of it.                                            *)
C2_FailureIsAbsent ==
  \A i \in 1..Len(calls) :
    LET c == calls[i]
    IN  (/\ GetsOf(c) # {}
         /\ \A g \in GetsOf(c) : net[g].answer \in {"timeout", "status"})
          => /\ c.raised = "none"
             /\ IF c.fn \in Memoized THEN c.ret.k = "none" ELSE DOMAIN c.ret = {}

RunModelOver == params.fn = "run_model" /\ pc \in {"done", "raised"}

(* C3: run_model never aborts because of one asset's data: whatever the   *)
(* histories (absent, empty, a single sample, differing lengths) and the  *)
(* market snapshot, it returns one row per asset, in portfolio order.     *)
(* Stated for the runs in which no request timed out.                     *)
C3_RunModelNeverAborts ==
  (RunModelOver /\ \A i \in 1..Len(net) : net[i].answer # "timeout")
    => /\ raised = "none"
       /\ Len(records) = Len(df)
       /\ \A i \in 1..Len(df) : records[i].Token = df[i].token

Absent(x) == x.k \in {"none", "nan"}

(* C4: when an asset's correlation to BTC or ETH cannot be computed (no   *)
(* history for the asset or for bitcoin / ethereum), the row's Corr_BTC / *)
(* Corr_ETH is absent, not 0.                                             *)
C4_MissingCorrIsAbsent ==
  (params.fn = "run_model" /\ pc = "done") =>
    \A i \in 1..Len(df) :
      LET cid == df[i].coingecko
      IN  /\ (cid \notin corr.index \/ "bitcoin" \notin corr.index)
               => Absent(records[i].Corr_BTC)
          /\ (cid \notin corr.index \/ "ethereum" \notin corr.index)
               => Absent(records[i].Corr_ETH)

(* the liquidity bucket of the specification *)
C8_LiquidityBucket(x) ==
  IF IsNone(x) THEN 3
  ELSE IF x.n > 500 * x.d THEN 1
  ELSE IF x.n > 50 * x.d THEN 3
  ELSE 5

(* the protocol bucket of the source *)
C8_ProtocolBucket(x) ==
  IF IsNone(x) THEN 3
  ELSE IF x.n > 1000 * x.d THEN 1
  ELSE IF x.n > 100 * x.d THEN 3
  ELSE 5

C8_RowsProtocol3 ==
  (params.fn = "run_model" /\ pc = "done") =>
    \A i \in 1..Len(records) : records[i].Protocol_Risk = 3

(* C8, as the specification states it: the protocol bucket is computed    *)
(* from TVL identically to the liquidity bucket from 24h volume           *)
(* (>500e6 -> 1, >50e6 -> 3, else 5, absent -> 3), and Protocol_Risk is 3 *)
(* on every row of run_model.                                             *)
C8_ProtocolAsLiquidity ==
  /\ (params.fn = "score_other" /\ pc = "done")
       => /\ ret.liq = C8_LiquidityBucket(params.volume_24h)
          /\ ret.prot = C8_LiquidityBucket(params.tvl)
  /\ C8_RowsProtocol3

(* C8, amended: the liquidity bucket is >500e6 -> 1, >50e6 -> 3, else 5,  *)
(* absent -> 3; the protocol bucket has the same shape with its own       *)
(* thresholds, >1e9 -> 1, >100e6 -> 3, else 5, absent -> 3; and           *)
(* Protocol_Risk is 3 on every row of run_model, where TVL is absent.     *)
C8_ProtocolOwnThresholds ==
  /\ (params.fn = "score_other" /\ pc = "done")
       => /\ ret.liq = C8_LiquidityBucket(params.volume_24h)
          /\ ret.prot = C8_ProtocolBucket(params.tvl)
  /\ C8_RowsProtocol3

C8_Witness ==
  /\ params.fn = "score_other"
  /\ pc = "done"
  /\ params.tvl = Flt(501)
  /\ params.volume_24h = Flt(501)
  /\ ret.liq = 1
  /\ ret.prot = 3

Historical == {"market_chart", "market_chart/range"}

GetsIn(n) == {i \in 1..Len(n) : n[i].ev = "get"}

(* C5: after each per-asset historical fetch, whether it succeeded or     *)
(* failed, the fixed pause (0.25 s with an API key, 1.0 s without) is     *)
(* observed before the next network request; a cache hit issues no        *)
(* request and no pause; no request is retried, so a backtest issues at   *)
(* most one range request per asset.                                      *)
C5_PauseAfterEveryFetch ==
  /\ \A i, j \in GetsIn(net) :
       (i < j /\ net[i].ep \in Historical)
         => \E s \in (i + 1)..(j - 1) : net[s] = Sleep(Pause(params.has_key))
  /\ \A i, j \in 1..Len(calls) :
       (/\ i < j
        /\ calls[i].key = calls[j].key
        /\ \E g \in GetsOf(calls[i]) : net[g].answer = "ok")
         => calls[j].first > calls[j].last
  /\ \A i \in 1..Len(calls) : Cardinality(GetsOf(calls[i])) <= 1
  /\ Len(calls) <= Len(df)

BacktestDone == params.fn = "backtest_portfolio" /\ pc = "done"

(* the call that fetched the prices of row i: the rows with an identifier *)
(* are fetched in order, one call each                                    *)
RangeCallOf(i) == calls[Cardinality({j \in 1..i : df[j].coingecko # NoCid})]

Unresolved(i) == df[i].coingecko = NoCid \/ ~NonEmpty(RangeCallOf(i).ret)

Derived == {"Units", "Start_Value_$", "End_Value_$", "PnL_$", "PnL_%"}

(* C10: in backtest_portfolio, an asset with no resolvable price (no      *)
(* identifier, or a range fetch that returns absent: start >= end, a      *)
(* failed fetch, an empty series) gets the fallback price as start and    *)
(* end price if it is stable, and NaN in every derived field if it is     *)
(* not; no error is raised for it (a run is only ever left by the timeout *)
(* of a request), the rows of the other assets are those of their own     *)
(* series, and a run with start >= end issues no request at all.          *)
C10_UnresolvedPrice ==
  /\ BacktestDone =>
       /\ Len(records) = Len(df) + 1
       /\ \A i \in 1..Len(df) :
            IF Unresolved(i)
            THEN IF df[i].stable
                 THEN /\ records[i]["Start_Price"] = params.stable_price_fallback
                      /\ records[i]["End_Price"] = params.stable_price_fallback
                 ELSE \A f \in Derived : IsNaN(records[i][f])
            ELSE LET q == RangeCallOf(i).ret.v
                 IN  /\ records[i]["Start_Price"] = Flt(q[1][2])
                     /\ records[i]["End_Price"] = Flt(q[Len(q)][2])
  /\ (params.fn = "backtest_portfolio" /\ raised # "none")
       => net[Len(net)].answer = "timeout"
  /\ (params.fn = "backtest_portfolio" /\ params.start_dt >= params.end_dt)
       => net = <<>> /\ raised = "none"

C10_Witness ==
  /\ BacktestDone
  /\ Len(df) = 3
  /\ df[1].stable /\ df[1].coingecko # NoCid /\ Unresolved(1)
  /\ records[1]["Start_Price"] = Flt(1)
  /\ ~df[2].stable /\ Unresolved(2) /\ IsNaN(records[2]["PnL_%"])
  /\ ~Unresolved(3) /\ records[3]["PnL_%"] = Flt(100)
  /\ net[1].answer = "status"

(* a start price that is a number above zero *)
Priced(r) == IsNum(r["Start_Price"]) /\ r["Start_Price"].n > 0

(* C11: in backtest_portfolio, a row with a start price sp > 0 has an end  *)
(* price ep and Units = starting_nav * alloc_pct/100 / sp, Start_Value_$ = *)
(* Units * sp, End_Value_$ = Units * ep, PnL_$ = End_Value_$ -             *)
(* Start_Value_$, and PnL_% = PnL_$ / Start_Value_$ * 100 when             *)
(* Start_Value_$ is above zero; every other row has NaN in all five.  On   *)
(* every row PnL_$ is NaN exactly when one of its operands is, and PnL_%   *)
(* is NaN whenever PnL_$ is NaN or Start_Value_$ is NaN, zero or negative. *)
C11_PnlArithmetic ==
  BacktestDone =>
    \A i \in 1..Len(df) :
      LET r     == records[i]
          sp    == r["Start_Price"]
          ep    == r["End_Price"]
          units == RDiv(RMul(params.starting_nav, RDiv(Flt(df[i].alloc_pct), Flt(100))), sp)
          start == r["Start_Value_$"]
          end   == r["End_Value_$"]
          pnl   == r["PnL_$"]
      IN  /\ IF Priced(r)
             THEN /\ IsNum(ep)
                  /\ r["Units"] = units
                  /\ start = RMul(units, sp)
                  /\ end = RMul(units, ep)
                  /\ pnl = RSub(end, start)
                  /\ start.n > 0 => r["PnL_%"] = RMul(RDiv(pnl, start), Flt(100))
             ELSE \A f \in Derived : IsNaN(r[f])
          /\ IsNaN(pnl) <=> (IsNaN(end) \/ IsNaN(start))
          /\ (IsNaN(pnl) \/ ~IsNum(start) \/ start.n <= 0) => IsNaN(r["PnL_%"])

(* one run with an empty sleeve (zero start value, no percentage), a short *)
(* sleeve (negative start value, no percentage) and a sleeve of 110% that  *)
(* doubles: 110000 buys 110000 units at 1, worth 220000 at 2               *)
C11_Witness ==
  /\ BacktestDone
  /\ df[1].alloc_pct = 0 /\ Priced(records[1])
  /\ records[1]["Start_Value_$"] = Flt(0) /\ records[1]["PnL_$"] = Flt(0)
  /\ IsNaN(records[1]["PnL_%"])
  /\ df[2].alloc_pct < 0 /\ Priced(records[2])
  /\ records[2]["Start_Value_$"] = Flt(-10000) /\ records[2]["PnL_$"] = Flt(-10000)
  /\ IsNaN(records[2]["PnL_%"])
  /\ records[3]["Start_Price"] = Flt(1) /\ records[3]["End_Price"] = Flt(2)
  /\ records[3]["Units"] = Flt(110000)
  /\ records[3]["End_Value_$"] = Flt(220000)
  /\ records[3]["PnL_%"] = Flt(100)

(* an absent value counted as 0 *)
AsZero(x) == IF IsNaN(x) THEN Flt(0) ELSE x

(* the sum of a column over the asset rows, absent values counted as 0 *)
AssetSum(name) == RSum([i \in 1..Len(df) |-> AsZero(records[i][name])])

Summed == {"Alloc_%", "Start_Value_$", "End_Value_$", "PnL_$"}

SnapshotOver == params.fn = "fetch_markets_batch" /\ pc \in {"done", "raised"}

(* the identifiers a call asks for *)
Requested == Range(params.ids) \ {NoCid}

(* the identifiers the bulk answer holds *)
Bulk == IF Answer(params.resp) = "ok" THEN DOMAIN params.resp.body ELSE {}

Missing == Requested \ Bulk

(* the price-only answer holds a price for cid *)
SimpleHas(cid) ==
  /\ Answer(params.resp2) = "ok"
  /\ cid \in DOMAIN params.resp2.body
  /\ params.resp2.body[cid].k \in {"num", "str"}

(* C13: fetch_markets_batch, for a list of identifiers that is not empty,  *)
(* issues exactly one bulk request (none for an empty list).  When that    *)
(* request is answered it issues the price-only request if and only if     *)
(* some requested identifier is absent from the bulk answer (every one is, *)
(* after a non-success status), once, and for exactly the missing          *)
(* identifiers.  In the result an identifier of the bulk answer has its    *)
(* bulk snapshot tagged "markets", whatever the price-only answer says of  *)
(* it; one resolved by the price-only answer alone has that price as a     *)
(* float, tagged "simple", with market cap and volume absent; one resolved *)
(* by neither is absent.  The call raises only when a request times out.   *)
C13_BulkThenPriceOnly ==
  SnapshotOver =>
    /\ IF params.ids = <<>>
       THEN net = <<>> /\ ret = <<>> /\ raised = "none"
       ELSE /\ net[1] = Get("coins/markets", Requested, params.resp)
            /\ \A i \in 2..Len(net) : net[i].ep # "coins/markets"
            /\ IF Answer(params.resp) = "timeout"
               THEN Len(net) = 1 /\ raised = "Timeout"
               ELSE /\ Len(net) = (IF Missing = {} THEN 1 ELSE 2)
                    /\ Missing # {} =>
                         /\ net[2].ev = "get"
                         /\ net[2].ep = "simple/price"
                         /\ net[2].key = Missing
                    /\ raised # "none"
                         <=> (Missing # {} /\ Answer(params.resp2) = "timeout")
    /\ pc = "done" =>
         /\ DOMAIN ret \subseteq Requested
         /\ \A cid \in Requested :
              IF cid \in Bulk
              THEN /\ cid \in DOMAIN ret
                   /\ ret[cid] = [price        |-> params.resp.body[cid].current_price,
                                  market_cap   |-> params.resp.body[cid].market_cap,
                                  volume_24h   |-> params.resp.body[cid].total_volume,
                                  price_source |-> "markets"]
              ELSE IF SimpleHas(cid)
              THEN /\ cid \in DOMAIN ret
                   /\ ret[cid] = [price        |-> Num(params.resp2.body[cid].n,
                                                       params.resp2.body[cid].d),
                                  market_cap   |-> None,
                                  volume_24h   |-> None,
                                  price_source |-> "simple"]
              ELSE cid \notin DOMAIN ret

(* one call for three identifiers: bitcoin is in the bulk answer and keeps *)
(* its bulk snapshot although the price-only answer names it too, ethereum *)
(* comes from the price-only answer alone, as the text "3", and solana     *)
(* from neither                                                            *)
C13_Witness ==
  /\ SnapshotOver
  /\ pc = "done"
  /\ Requested = {"bitcoin", "ethereum", "solana"}
  /\ Bulk = {"bitcoin"}
  /\ SimpleHas("bitcoin")
  /\ SimpleHas("ethereum")
  /\ DOMAIN ret = {"bitcoin", "ethereum"}
  /\ ret["bitcoin"].price_source = "markets"
  /\ ret["bitcoin"].market_cap = Flt(20000)
  /\ params.resp2.body["ethereum"] = Str(3)
  /\ ret["ethereum"].price_source = "simple"
  /\ ret["ethereum"].price = Flt(3)
  /\ IsNone(ret["ethereum"].market_cap)
  /\ Len(net) = 2
  /\ net[2].key = {"ethereum", "solana"}

====
